---- MODULE Spec2Model ----
(***************************************************************************)
(* Model of the LightStep span Recorder (recorder.go): the bounded span    *)
(* buffer, the Flush / Report protocol, Disable, and the background        *)
(* reportLoop, with the recorder mutex modelled explicitly.                *)
(*                                                                         *)
(* Time is counted in units of minReportingPeriod (500ms).                 *)
(***************************************************************************)
EXTENDS Integers, Sequences, FiniteSets, TLC

\* ------------------------------------------------------------- bounds
\* spans handed to RecordSpan over a run (span ids 1..MaxSpans)
MaxSpans == 2
\* largest Options.MaxBufferedSpans tried
MaxCap == 2
\* Tick advances the clock up to MaxTime
MaxTime == 1

\* ---------------------------------------------------------- constants
\* recorder.go:30, 500ms, the unit of time of this model
minReportingPeriod == 1
\* recorder.go:29, 2500ms
defaultMaxReportingPeriod == 5

Min(a, b) == IF a < b THEN a ELSE b
Max(a, b) == IF a > b THEN a ELSE b

\* ------------------------------------------------------------ threads
\* the goroutine of reportLoop, one goroutine calling Flush from outside, one
\* calling RecordSpan (callers of RecordSpan differ only in the order in which
\* they get the lock), one calling Disable
Loop == "reportLoop"
Flusher == "flusher"
Producer == "producer"
Disabler == "disabler"
NoThread == "none"

Flushers == {Flusher}
Producers == {Producer}
FlushThreads == {Loop} \cup Flushers
DisableThreads == FlushThreads \cup {Disabler}
Threads == FlushThreads \cup Producers \cup {Disabler}

\* the zero time.Time{}: lastReportAttempt before the first Flush. It lies
\* further in the past than any period of the model.
ZeroTime == 0 - (defaultMaxReportingPeriod + MaxTime + 10)

VARIABLES
    \* Recorder fields
    lock,               \* r.lock: its holder, or NoThread
    disabled,           \* r.disabled
    reportInFlight,     \* r.reportInFlight
    buffer,             \* r.buffer: the buffered spans, oldest first
    bufferCap,          \* r.buffer: its capacity
    droppedSpans,       \* r.counters.droppedSpans
    reportOldest,       \* r.reportOldest
    reportYoungest,     \* r.reportYoungest
    lastReportAttempt,  \* r.lastReportAttempt
    maxReportingPeriod, \* r.maxReportingPeriod
    options,            \* the Options NewRecorder was called with
    transportClosed,    \* b.Transport.Close() has run
    \* environment
    clock,              \* time.Now()
    tickPending,        \* a tick waits in time.Tick's channel
    nextSpan,           \* id of the next span the instrumentation produces
    \* goroutines
    pc,                 \* where each goroutine is
    spanArg,            \* RecordSpan's argument raw, per producer
    flushNow,           \* Flush's local now
    rawSpans,           \* Flush's local rawSpans
    req,                \* Flush's local req
    resp,               \* Flush's locals resp, err
    \* history: what the properties need to remember; no program state depends on it
    pre,                \* recorder state when a Flush began its attempt
    interfered,         \* a RecordSpan or Disable ran during the Flush's call
    run,                \* the RecordSpan calls since the buffer was last empty and idle
    unreportedDrops,    \* spans rejected by overflow so far, less those counted
                        \* in the Counters of a successful report
    commanded,          \* the Flush has met a disable command in its response
    during,             \* the spans RecordSpan buffered during the Flush's call
    ledger,             \* which spans were buffered, and how often each was in a
                        \* successful report, dropped when a failed Flush put its
                        \* spans back, cleared by Disable; kept, as during is,
                        \* in the runs that start with ledger.on
    lastStep,           \* what the step that led to this state did, for the steps
                        \* of Flush that the properties below speak about
    \* the translation of one span into its wire record, on its own
    rawTags,            \* the keys of raw.Tags
    rawParent,          \* raw.ParentSpanID
    record              \* the SpanRecord built from them

recVars == <<lock, disabled, reportInFlight, buffer, bufferCap, droppedSpans,
             reportOldest, reportYoungest, lastReportAttempt,
             maxReportingPeriod, options, transportClosed>>
envVars == <<clock, tickPending, nextSpan>>
locVars == <<pc, spanArg, flushNow, rawSpans, req, resp>>
histVars == <<pre, interfered, run, unreportedDrops, commanded, during, ledger>>
wireVars == <<rawTags, rawParent, record>>
vars == <<recVars, envVars, locVars, histVars, lastStep, wireVars>>

\* -------------------------------------------------------- spansBuffer
\* buffer.addSpans(spans): appends as many as fit, returns how many did not
addSpans(buf, spans) ==
    LET fit == Max(0, Min(Len(spans), bufferCap - Len(buf)))
    IN  [buffer |-> buf \o SubSeq(spans, 1, fit), dropped |-> Len(spans) - fit]

\* buffer.current()
current(buf) == buf

\* buffer.reset()
reset(buf) == << >>

\* buffer.setDefaults(): no bound that a run of the model can reach
defaultMaxBufferSize == MaxSpans + 1

\* ------------------------------------------------------------ values
NoReq == [OldestMicros |-> 0, YoungestMicros |-> 0, SpanRecords |-> << >>, Counters |-> 0]
NoResp == [err |-> FALSE, Commands |-> << >>]
NoRun == [spans |-> << >>, base |-> 0, ok |-> FALSE]
NoStep == [op |-> "other"]
NoPre == [buffer |-> << >>, dropped |-> 0, oldest |-> 0, youngest |-> 0, run |-> NoRun]

\* the spans the instrumentation produces
SpanIds == 1..MaxSpans

\* how often span s is in the sequence q
Count(q, s) == Cardinality({i \in DOMAIN q : q[i] = s})

\* the tally f with the spans of q counted once more
Tally(f, q) == [s \in SpanIds |-> f[s] + Count(q, s)]

NoTally == [s \in SpanIds |-> 0]

\* the ledger of spans at construction, not kept
NoLedger == [on |-> FALSE, accepted |-> {}, reported |-> NoTally,
             dropped |-> NoTally, cleared |-> NoTally]

\* the tally f of the ledger with the spans of q counted, if the ledger is kept
Booked(f, q) == IF ledger.on THEN Tally(f, q) ELSE f

\* resp.Commands: each command is its Disable flag
CommandLists == {<< >>, <<FALSE>>, <<TRUE>>, <<FALSE, TRUE>>}

\* what backend.Report can return: a transport error, or a response. The
\* response's Errors are logged and decide nothing (lines 321-326).
Responses ==
    {[err |-> TRUE, Commands |-> << >>]}
    \cup {[err |-> FALSE, Commands |-> c] : c \in CommandLists}

OptionsSet == [MaxBufferedSpans : 0..MaxCap, ReportingPeriod : {0}]

\* --------------------------------------------------------------- Init
\* NewRecorder(opts)
NewRecorder(opts) ==
        /\ options = opts
        /\ lock = NoThread
        /\ disabled = FALSE
        /\ reportInFlight = FALSE
        /\ buffer = << >>
        /\ bufferCap = IF opts.MaxBufferedSpans > 0 THEN opts.MaxBufferedSpans
                       ELSE defaultMaxBufferSize
        /\ droppedSpans = 0
        /\ clock = 0
        /\ reportOldest = 0
        /\ reportYoungest = 0
        /\ lastReportAttempt = ZeroTime
        /\ maxReportingPeriod = defaultMaxReportingPeriod
        /\ transportClosed = FALSE
        /\ tickPending = FALSE
        /\ nextSpan = 1
        /\ pc = [t \in Threads |-> IF t = Loop THEN "wait" ELSE "idle"]
        /\ spanArg = [p \in Producers |-> 0]
        /\ flushNow = [t \in FlushThreads |-> 0]
        /\ rawSpans = [t \in FlushThreads |-> << >>]
        /\ req = [t \in FlushThreads |-> NoReq]
        /\ resp = [t \in FlushThreads |-> NoResp]
        /\ pre = [t \in FlushThreads |-> NoPre]
        /\ interfered = [t \in FlushThreads |-> FALSE]
        /\ run = [spans |-> << >>, base |-> 0, ok |-> TRUE]
        /\ unreportedDrops = 0
        /\ commanded = [t \in FlushThreads |-> FALSE]
        /\ during = [t \in FlushThreads |-> << >>]
        /\ lastStep = NoStep

\* no span is being translated on its own
NoRecord == [JoinIds |-> {}, Attributes |-> {}, built |-> FALSE]

WireIdle ==
    /\ rawTags = {}
    /\ rawParent = 0
    /\ record = NoRecord

Init ==
    /\ \E opts \in OptionsSet : NewRecorder(opts)
    /\ ledger = NoLedger
    /\ WireIdle

\* ------------------------------------------------------------ helpers
\* where a goroutine is when its call (Flush, Disable) returns
Return(t) == IF t = Loop THEN "wait" ELSE "idle"

\* the Flush calls whose backend call is under way or not yet accounted for
InCall(t) == pc[t] \in {"Report", "Relock"}

\* ---------------------------------------------------------- RecordSpan
\* RecordSpan line 208: r.lock.Lock(), with the next span as argument
RecordSpanLock(p) ==
    /\ UNCHANGED wireVars
    /\ pc[p] = "idle"
    /\ nextSpan <= MaxSpans
    /\ lock = NoThread
    /\ lock' = p
    /\ spanArg' = [spanArg EXCEPT ![p] = nextSpan]
    /\ nextSpan' = nextSpan + 1
    /\ pc' = [pc EXCEPT ![p] = "RecordSpanLocked"]
    /\ UNCHANGED <<disabled, reportInFlight, buffer, bufferCap, droppedSpans,
                   reportOldest, reportYoungest, lastReportAttempt,
                   maxReportingPeriod, options, transportClosed>>
    /\ UNCHANGED <<clock, tickPending, flushNow, rawSpans, req, resp>>
    /\ UNCHANGED histVars
    /\ lastStep' = NoStep

\* a RecordSpan without the early-out
RecordSpanNeverSkips == FALSE

\* RecordSpan line 212: the early-out for disabled runtimes
RecordSpanSkips == disabled

\* a RecordSpan that does not count what addSpans dropped
RecordSpanCountsNothing(n) == droppedSpans

\* RecordSpan line 216: the counter after r.buffer.addSpans dropped n spans
RecordSpanCount(n) == droppedSpans + n

\* RecordSpan lines 211-217, and the deferred Unlock
RecordSpanBody(p) ==
    /\ UNCHANGED wireVars
    /\ pc[p] = "RecordSpanLocked"
    /\ lock = p
    /\ IF RecordSpanSkips
       THEN UNCHANGED <<buffer, droppedSpans, run, interfered, unreportedDrops,
                        during, ledger>>
       ELSE LET r == addSpans(buffer, <<spanArg[p]>>)
            IN  /\ buffer' = r.buffer
                /\ droppedSpans' = RecordSpanCount(r.dropped)
                /\ unreportedDrops' = unreportedDrops + r.dropped
                /\ run' = [run EXCEPT !.spans = IF run.ok THEN Append(@, spanArg[p]) ELSE @]
                /\ interfered' = [t \in FlushThreads |-> interfered[t] \/ InCall(t)]
                /\ during' = [t \in FlushThreads |->
                                 IF ledger.on /\ InCall(t) /\ r.dropped = 0
                                 THEN Append(during[t], spanArg[p]) ELSE during[t]]
                /\ ledger' = [ledger EXCEPT !.accepted =
                                 IF ledger.on /\ r.dropped = 0
                                 THEN @ \cup {spanArg[p]} ELSE @]
    /\ lock' = NoThread
    /\ pc' = [pc EXCEPT ![p] = "idle"]
    /\ spanArg' = [spanArg EXCEPT ![p] = 0]
    /\ UNCHANGED <<disabled, reportInFlight, bufferCap, reportOldest, reportYoungest,
                   lastReportAttempt, maxReportingPeriod, options, transportClosed>>
    /\ UNCHANGED <<envVars, flushNow, rawSpans, req, resp, pre, commanded>>
    /\ lastStep' = NoStep

\* --------------------------------------------------------------- Flush
\* Flush line 220: r.lock.Lock(); an outside caller calls Flush at any time,
\* the reportLoop after shouldFlush() returned true
FlushLock(t) ==
    /\ UNCHANGED wireVars
    /\ \/ t \in Flushers /\ pc[t] = "idle"
       \/ t = Loop /\ pc[t] = "Flush"
    /\ lock = NoThread
    /\ lock' = t
    /\ pc' = [pc EXCEPT ![t] = "FlushLocked"]
    /\ UNCHANGED <<disabled, reportInFlight, buffer, bufferCap, droppedSpans,
                   reportOldest, reportYoungest, lastReportAttempt,
                   maxReportingPeriod, options, transportClosed>>
    /\ UNCHANGED <<envVars, spanArg, flushNow, rawSpans, req, resp, histVars>>
    /\ lastStep' = NoStep

\* a Flush that does not look at reportInFlight
FlushAbortsNever == FALSE

\* Flush line 227: a previous Report is still in flight
FlushAborts == reportInFlight = TRUE

\* an early return that takes the report in flight for finished
InFlightClearedByAbort == FALSE

\* Flush lines 222-231: the early returns do not touch r.reportInFlight
InFlightAfterAbort == reportInFlight

\* Flush lines 222-231: the two early returns
FlushReturnEarly(t) ==
    /\ UNCHANGED wireVars
    /\ pc[t] = "FlushLocked"
    /\ lock = t
    /\ disabled \/ FlushAborts
    /\ reportInFlight' = InFlightAfterAbort
    /\ lock' = NoThread
    /\ pc' = [pc EXCEPT ![t] = Return(t)]
    /\ UNCHANGED <<disabled, buffer, bufferCap, droppedSpans,
                   reportOldest, reportYoungest, lastReportAttempt,
                   maxReportingPeriod, options, transportClosed>>
    /\ UNCHANGED <<envVars, spanArg, flushNow, rawSpans, req, resp, histVars>>
    /\ lastStep' = [op |-> "FlushReturnEarly", inFlight |-> reportInFlight]

\* a Flush that leaves reportYoungest alone until the report has succeeded
YoungestNotStamped == reportYoungest

\* Flush line 235: r.reportYoungest = now
YoungestAtAttempt == clock

\* Flush lines 301-307: the request, built from the spans of the buffer
ReportRequest(spans) ==
    [OldestMicros |-> reportOldest, YoungestMicros |-> YoungestAtAttempt,
     SpanRecords |-> spans, Counters |-> droppedSpans]

\* a Flush that keeps no copy of the spans it sends
TakenNothing == << >>

\* Flush line 237: rawSpans := r.buffer.current()
TakenSpans == current(buffer)

\* a Flush that does not clear the buffer before the RPC
BufferNotDrained == buffer

\* Flush line 313: r.buffer.reset() before the RPC
DrainedBuffer == reset(buffer)

\* a Flush that keeps the lock over the RPC
LockKeptOverReport(t) == t

\* Flush line 316: the lock's holder once the request is built
LockAfterDrain(t) == NoThread

\* Flush lines 233-316: stamp the attempt, take the buffer, build the request,
\* clear the buffer, mark the report in flight, unlock
FlushDrain(t) ==
    /\ UNCHANGED wireVars
    /\ pc[t] = "FlushLocked"
    /\ lock = t
    /\ ~disabled
    /\ ~FlushAborts
    /\ flushNow' = [flushNow EXCEPT ![t] = clock]
    /\ lastReportAttempt' = clock
    /\ reportYoungest' = YoungestAtAttempt
    /\ rawSpans' = [rawSpans EXCEPT ![t] = TakenSpans]
    /\ req' = [req EXCEPT ![t] = ReportRequest(current(buffer))]
    /\ buffer' = DrainedBuffer
    /\ reportInFlight' = TRUE
    /\ lock' = LockAfterDrain(t)
    /\ pc' = [pc EXCEPT ![t] = "Report"]
    /\ pre' = [pre EXCEPT ![t] = [buffer |-> buffer, dropped |-> droppedSpans,
                                  oldest |-> reportOldest, youngest |-> reportYoungest,
                                  run |-> run]]
    /\ interfered' = [interfered EXCEPT ![t] = FALSE]
    /\ run' = NoRun
    /\ UNCHANGED <<disabled, bufferCap, droppedSpans, reportOldest,
                   maxReportingPeriod, options, transportClosed>>
    /\ during' = [during EXCEPT ![t] = << >>]
    /\ UNCHANGED <<envVars, spanArg, resp, unreportedDrops, commanded, ledger>>
    /\ lastStep' = [op |-> "FlushDrain", thread |-> t]

\* Flush lines 318-329: r.backend.Report(r.auth, req) returns, with the lock
\* not held; its outcome is logged
Report(t) ==
    /\ UNCHANGED wireVars
    /\ pc[t] = "Report"
    /\ \E r \in Responses : resp' = [resp EXCEPT ![t] = r]
    /\ pc' = [pc EXCEPT ![t] = "Relock"]
    /\ UNCHANGED <<recVars, envVars, spanArg, flushNow, rawSpans, req, histVars>>
    /\ lastStep' = NoStep

\* Flush line 331: r.lock.Lock() after the RPC
FlushRelock(t) ==
    /\ UNCHANGED wireVars
    /\ pc[t] = "Relock"
    /\ lock = NoThread
    /\ lock' = t
    /\ pc' = [pc EXCEPT ![t] = "Relocked"]
    /\ UNCHANGED <<disabled, reportInFlight, buffer, bufferCap, droppedSpans,
                   reportOldest, reportYoungest, lastReportAttempt,
                   maxReportingPeriod, options, transportClosed>>
    /\ UNCHANGED <<envVars, spanArg, flushNow, rawSpans, req, resp, histVars>>
    /\ lastStep' = NoStep

\* a failed Flush that does not put the unsent spans back
RestoreNothing(buf, spans) == [buffer |-> buf, dropped |-> 0]

\* a restore that appends the unsent spans whatever the capacity
RestoreSpansUnbounded(buf, spans) == [buffer |-> buf \o spans, dropped |-> 0]

\* Flush line 335: r.buffer.addSpans(rawSpans) puts the unsent spans back
RestoreSpans(buf, spans) == addSpans(buf, spans)

\* a reset of the window to the time at which the RPC has returned
WindowAtCompletion(t) == [oldest |-> clock, youngest |-> clock]

\* Flush lines 342-343: the window after a successful report
WindowAfterSuccess(t) == [oldest |-> flushNow[t], youngest |-> flushNow[t]]

\* Flush line 345: r.counters = counterSet{}
CountersAfterSuccess == 0

\* a Flush that clears the buffer when the RPC has returned
BufferResetAfterReport == reset(buffer)

\* Flush lines 309-313, 341-348: the buffer was cleared before the RPC and is
\* left alone after it
BufferAfterReport == buffer

\* the history of the RecordSpan calls starts afresh when a Flush is over and
\* has left an enabled recorder with an empty buffer
RunAfterFlush(buf, dropped) ==
    IF buf = << >> /\ ~disabled
    THEN [spans |-> << >>, base |-> dropped, ok |-> TRUE]
    ELSE run

\* Flush lines 332-339: the RPC failed; restore the spans and return
FlushFailure(t) ==
    /\ UNCHANGED wireVars
    /\ pc[t] = "Relocked"
    /\ lock = t
    /\ resp[t].err
    /\ reportInFlight' = FALSE
    /\ LET r == RestoreSpans(buffer, rawSpans[t])
       IN  /\ buffer' = r.buffer
           /\ droppedSpans' = droppedSpans + r.dropped
           /\ unreportedDrops' = unreportedDrops + r.dropped
           /\ run' = RunAfterFlush(r.buffer, droppedSpans + r.dropped)
           /\ ledger' = [ledger EXCEPT !.dropped =
                            Booked(@, SubSeq(rawSpans[t], Len(rawSpans[t]) - r.dropped + 1,
                                             Len(rawSpans[t])))]
    /\ lock' = NoThread
    /\ pc' = [pc EXCEPT ![t] = Return(t)]
    /\ flushNow' = [flushNow EXCEPT ![t] = 0]
    /\ rawSpans' = [rawSpans EXCEPT ![t] = << >>]
    /\ req' = [req EXCEPT ![t] = NoReq]
    /\ resp' = [resp EXCEPT ![t] = NoResp]
    /\ pre' = [pre EXCEPT ![t] = NoPre]
    /\ interfered' = [interfered EXCEPT ![t] = FALSE]
    /\ lastStep' = [op |-> "FlushFailure", pre |-> pre[t], interfered |-> interfered[t],
                    flushNow |-> flushNow[t], buffer |-> buffer, dropped |-> droppedSpans]
    /\ UNCHANGED <<disabled, bufferCap, reportOldest, reportYoungest,
                   lastReportAttempt, maxReportingPeriod, options, transportClosed>>
    /\ during' = [during EXCEPT ![t] = << >>]
    /\ UNCHANGED <<envVars, spanArg, commanded>>

\* Flush lines 332, 341-348: the RPC succeeded; reset the window and the counters
FlushSuccess(t) ==
    /\ UNCHANGED wireVars
    /\ pc[t] = "Relocked"
    /\ lock = t
    /\ ~resp[t].err
    /\ reportInFlight' = FALSE
    /\ reportOldest' = WindowAfterSuccess(t).oldest
    /\ reportYoungest' = WindowAfterSuccess(t).youngest
    /\ droppedSpans' = CountersAfterSuccess
    /\ unreportedDrops' = unreportedDrops - req[t].Counters
    /\ run' = RunAfterFlush(buffer, CountersAfterSuccess)
    /\ lock' = NoThread
    /\ pc' = [pc EXCEPT ![t] = "Commands"]
    /\ flushNow' = [flushNow EXCEPT ![t] = 0]
    /\ rawSpans' = [rawSpans EXCEPT ![t] = << >>]
    /\ req' = [req EXCEPT ![t] = NoReq]
    /\ pre' = [pre EXCEPT ![t] = NoPre]
    /\ interfered' = [interfered EXCEPT ![t] = FALSE]
    /\ buffer' = BufferAfterReport
    /\ UNCHANGED <<disabled, bufferCap, lastReportAttempt,
                   maxReportingPeriod, options, transportClosed>>
    /\ during' = [during EXCEPT ![t] = << >>]
    /\ ledger' = [ledger EXCEPT !.reported = Booked(@, req[t].SpanRecords)]
    /\ UNCHANGED <<envVars, spanArg, resp, commanded>>
    /\ lastStep' = [op |-> "FlushSuccess", thread |-> t, flushNow |-> flushNow[t],
                    during |-> during[t], sent |-> req[t].SpanRecords]

\* Flush line 351: c.Disable != nil && *c.Disable
CommandDisables(c) == c = TRUE

\* Flush lines 350-354: the loop over resp.Commands, one command a step; the
\* Flush returns when the loop is over
FlushCommands(t) ==
    /\ UNCHANGED wireVars
    /\ pc[t] = "Commands"
    /\ IF resp[t].Commands = << >>
       THEN /\ pc' = [pc EXCEPT ![t] = Return(t)]
            /\ resp' = [resp EXCEPT ![t] = NoResp]
            /\ commanded' = [commanded EXCEPT ![t] = FALSE]
            /\ lastStep' = [op |-> "FlushReturn", commanded |-> commanded[t]]
       ELSE /\ pc' = [pc EXCEPT ![t] = IF CommandDisables(Head(resp[t].Commands))
                                       THEN "Disable" ELSE "Commands"]
            /\ resp' = [resp EXCEPT ![t].Commands = Tail(@)]
            /\ commanded' = [commanded EXCEPT ![t] = @ \/ CommandDisables(Head(resp[t].Commands))]
            /\ lastStep' = NoStep
    /\ UNCHANGED <<recVars, envVars, spanArg, flushNow, rawSpans, req>>
    /\ UNCHANGED <<pre, interfered, run, unreportedDrops, during, ledger>>

\* ------------------------------------------------------------- Disable
\* Disable line 370: r.lock.Lock(); called from outside at any time, and by
\* Flush for a disable command
DisableLock(t) ==
    /\ UNCHANGED wireVars
    /\ \/ t = Disabler /\ pc[t] = "idle"
       \/ t \in FlushThreads /\ pc[t] = "Disable"
    /\ lock = NoThread
    /\ lock' = t
    /\ pc' = [pc EXCEPT ![t] = "DisableLocked"]
    /\ UNCHANGED <<disabled, reportInFlight, buffer, bufferCap, droppedSpans,
                   reportOldest, reportYoungest, lastReportAttempt,
                   maxReportingPeriod, options, transportClosed>>
    /\ UNCHANGED <<envVars, spanArg, flushNow, rawSpans, req, resp, histVars>>
    /\ lastStep' = NoStep

\* Disable line 373: already disabled
DisableSkips == disabled

\* Disable lines 373-381, and the deferred Unlock
DisableBody(t) ==
    /\ UNCHANGED wireVars
    /\ pc[t] = "DisableLocked"
    /\ lock = t
    /\ IF DisableSkips
       THEN UNCHANGED <<buffer, disabled, run, interfered, ledger>>
       ELSE /\ buffer' = reset(buffer)
            /\ ledger' = [ledger EXCEPT !.cleared = Booked(@, buffer)]
            /\ disabled' = TRUE
            /\ run' = NoRun
            /\ interfered' = [u \in FlushThreads |-> interfered[u] \/ InCall(u)]
    /\ lock' = NoThread
    /\ pc' = [pc EXCEPT ![t] = IF t = Disabler THEN "idle" ELSE "Commands"]
    /\ UNCHANGED <<reportInFlight, bufferCap, droppedSpans, reportOldest, reportYoungest,
                   lastReportAttempt, maxReportingPeriod, options, transportClosed>>
    /\ UNCHANGED <<envVars, spanArg, flushNow, rawSpans, req, resp, pre,
                   unreportedDrops, commanded, during>>
    /\ lastStep' = NoStep

\* ---------------------------------------------------------- reportLoop
\* time passes; time.Tick(minReportingPeriod) leaves at most one tick waiting
Tick ==
    /\ UNCHANGED wireVars
    /\ clock < MaxTime
    /\ clock' = clock + 1
    /\ tickPending' = (tickPending \/ (clock + 1) % minReportingPeriod = 0)
    /\ UNCHANGED <<recVars, nextSpan, locVars, histVars>>
    /\ lastStep' = NoStep

\* reportLoop line 423: a tick arrives
LoopWake ==
    /\ UNCHANGED wireVars
    /\ pc[Loop] = "wait"
    /\ tickPending
    /\ tickPending' = FALSE
    /\ pc' = [pc EXCEPT ![Loop] = "awake"]
    /\ UNCHANGED <<recVars, clock, nextSpan, spanArg, flushNow, rawSpans, req, resp, histVars>>
    /\ lastStep' = NoStep

\* reportLoop line 427: r.lock.Lock()
LoopLock ==
    /\ UNCHANGED wireVars
    /\ pc[Loop] = "awake"
    /\ lock = NoThread
    /\ lock' = Loop
    /\ pc' = [pc EXCEPT ![Loop] = "LoopLocked"]
    /\ UNCHANGED <<disabled, reportInFlight, buffer, bufferCap, droppedSpans,
                   reportOldest, reportYoungest, lastReportAttempt,
                   maxReportingPeriod, options, transportClosed>>
    /\ UNCHANGED <<envVars, spanArg, flushNow, rawSpans, req, resp, histVars>>
    /\ lastStep' = NoStep

\* a reportLoop that never looks at disabled
LoopNeverBreaks == FALSE

\* reportLoop line 428: if r.disabled
LoopBreaks == disabled

\* reportLoop lines 428-432 and the deferred b.Transport.Close() of line 419:
\* leave the loop if disabled
LoopCheckDisabled ==
    /\ UNCHANGED wireVars
    /\ pc[Loop] = "LoopLocked"
    /\ lock = Loop
    /\ lock' = NoThread
    /\ IF LoopBreaks
       THEN /\ pc' = [pc EXCEPT ![Loop] = "exited"]
            /\ transportClosed' = TRUE
       ELSE /\ pc' = [pc EXCEPT ![Loop] = "shouldFlush"]
            /\ UNCHANGED transportClosed
    /\ UNCHANGED <<disabled, reportInFlight, buffer, bufferCap, droppedSpans,
                   reportOldest, reportYoungest, lastReportAttempt,
                   maxReportingPeriod, options>>
    /\ UNCHANGED <<envVars, spanArg, flushNow, rawSpans, req, resp, histVars>>
    /\ lastStep' = NoStep

\* shouldFlush line 397: r.lock.Lock()
ShouldFlushLock ==
    /\ UNCHANGED wireVars
    /\ pc[Loop] = "shouldFlush"
    /\ lock = NoThread
    /\ lock' = Loop
    /\ pc' = [pc EXCEPT ![Loop] = "shouldFlushLocked"]
    /\ UNCHANGED <<disabled, reportInFlight, buffer, bufferCap, droppedSpans,
                   reportOldest, reportYoungest, lastReportAttempt,
                   maxReportingPeriod, options, transportClosed>>
    /\ UNCHANGED <<envVars, spanArg, flushNow, rawSpans, req, resp, histVars>>
    /\ lastStep' = NoStep

\* a shouldFlush that looks at the buffer only
shouldFlushWhenFull == Len(buffer) > bufferCap \div 2

\* shouldFlush lines 400-409: its result
shouldFlush ==
    \/ (clock + minReportingPeriod) - lastReportAttempt > maxReportingPeriod
    \/ Len(buffer) > bufferCap \div 2

\* shouldFlush lines 398-409 and reportLoop lines 434-436
ShouldFlushBody ==
    /\ UNCHANGED wireVars
    /\ pc[Loop] = "shouldFlushLocked"
    /\ lock = Loop
    /\ lock' = NoThread
    /\ pc' = [pc EXCEPT ![Loop] = IF shouldFlush THEN "Flush" ELSE "wait"]
    /\ UNCHANGED <<disabled, reportInFlight, buffer, bufferCap, droppedSpans,
                   reportOldest, reportYoungest, lastReportAttempt,
                   maxReportingPeriod, options, transportClosed>>
    /\ UNCHANGED <<envVars, spanArg, flushNow, rawSpans, req, resp, histVars>>
    /\ lastStep' = [op |-> "shouldFlush"]

\* ---------------------------------------------------------------- Next
Next ==
    \/ \E p \in Producers : RecordSpanLock(p)
    \/ \E p \in Producers : RecordSpanBody(p)
    \/ \E t \in FlushThreads : FlushLock(t)
    \/ \E t \in FlushThreads : FlushReturnEarly(t)
    \/ \E t \in FlushThreads : FlushDrain(t)
    \/ \E t \in FlushThreads : Report(t)
    \/ \E t \in FlushThreads : FlushRelock(t)
    \/ \E t \in FlushThreads : FlushFailure(t)
    \/ \E t \in FlushThreads : FlushSuccess(t)
    \/ \E t \in FlushThreads : FlushCommands(t)
    \/ \E t \in DisableThreads : DisableLock(t)
    \/ \E t \in DisableThreads : DisableBody(t)
    \/ Tick
    \/ LoopWake
    \/ LoopLock
    \/ LoopCheckDisabled
    \/ ShouldFlushLock
    \/ ShouldFlushBody

Spec == Init /\ [][Next]_vars

\* ------------------------------------------- with the ledger of spans
\* Options that set the smallest and the largest capacity tried
CapacityOptions == [MaxBufferedSpans : {1, MaxCap}, ReportingPeriod : {0}]

AuditInit ==
    /\ \E opts \in CapacityOptions : NewRecorder(opts)
    /\ ledger = [NoLedger EXCEPT !.on = TRUE]
    /\ WireIdle

AuditSpec == AuditInit /\ [][Next]_vars

\* ---------------------------------------- with a reporting period set
\* Options with and without a ReportingPeriod (of two ticks)
PeriodOptions ==
    [MaxBufferedSpans : {0}, ReportingPeriod : {0, 2 * minReportingPeriod}]

PeriodInit ==
    /\ \E opts \in PeriodOptions : NewRecorder(opts)
    /\ ledger = NoLedger
    /\ WireIdle

PeriodSpec == PeriodInit /\ [][Next]_vars

\* --------------------------------------------------- with a long pause
\* the process does not run for a maximum reporting period less one tick, so
\* that an attempt made one tick ago is not yet due and an older one is; a
\* tick is waiting afterwards
Pause ==
    /\ UNCHANGED wireVars
    /\ clock = MaxTime
    /\ clock' = clock + (defaultMaxReportingPeriod - minReportingPeriod)
    /\ tickPending' = TRUE
    /\ UNCHANGED <<recVars, nextSpan, locVars, histVars>>
    /\ lastStep' = NoStep

TimedNext == Next \/ Pause

TimedInit ==
    /\ \E opts \in CapacityOptions : NewRecorder(opts)
    /\ ledger = NoLedger
    /\ WireIdle

TimedSpec == TimedInit /\ [][TimedNext]_vars

\* ------------------------------------------- the wire record of a span
\* a string is the sequence of its characters
JoinPrefix == <<"j", "o", "i", "n", ":">>

\* TraceGUIDKey = "join:trace_guid"
TraceGUIDKey == JoinPrefix \o <<"t", "r", "a", "c", "e", "_", "g", "u", "i", "d">>

\* ParentSpanGUIDKey = "parent_span_guid"
ParentSpanGUIDKey ==
    <<"p", "a", "r", "e", "n", "t", "_", "s", "p", "a", "n", "_", "g", "u", "i", "d">>

\* strings.HasPrefix(str, prefix): str begins with prefix
HasPrefix(str, prefix) ==
    /\ Len(str) >= Len(prefix)
    /\ SubSeq(str, 1, Len(prefix)) = prefix

\* the tag keys tried: "", "j", "join", "join:", "join:a", "joint", "a"
TagKeys ==
    {<< >>, <<"j">>, <<"j", "o", "i", "n">>, JoinPrefix, JoinPrefix \o <<"a">>,
     <<"j", "o", "i", "n", "t">>, <<"a">>}

\* Flush line 245: the test that sends a tag to the join ids
IsJoinTag(key) == HasPrefix(JoinPrefix, key)

\* Flush lines 242-299: the join ids and the attributes of the record of a
\* span, by key; the order of the tags in them is the order of a map range
SpanRecord(tags, parent) ==
    [JoinIds |-> {k \in tags : IsJoinTag(k)} \cup {TraceGUIDKey},
     Attributes |-> {k \in tags : ~IsJoinTag(k)}
                    \cup (IF parent # 0 THEN {ParentSpanGUIDKey} ELSE {}),
     built |-> TRUE]

\* a span with any of the tags, with or without a parent
WireInit ==
    /\ NewRecorder([MaxBufferedSpans |-> 0, ReportingPeriod |-> 0])
    /\ ledger = NoLedger
    /\ rawTags \in SUBSET TagKeys
    /\ rawParent \in {0, 1}
    /\ record = NoRecord

\* Flush lines 241-299 for one span
Translate ==
    /\ ~record.built
    /\ record' = SpanRecord(rawTags, rawParent)
    /\ UNCHANGED <<recVars, envVars, locVars, histVars, lastStep, rawTags, rawParent>>

WireNext == Translate

WireSpec == WireInit /\ [][WireNext]_vars

\* ------------------------------------------------- with a fair scheduler
\* time.Tick keeps sending ticks after the last clock reading that the model
\* tells apart
TickLate ==
    /\ UNCHANGED wireVars
    /\ clock = MaxTime
    /\ ~tickPending
    /\ tickPending' = TRUE
    /\ UNCHANGED <<recVars, clock, nextSpan, locVars, histVars>>
    /\ lastStep' = NoStep

LiveNext == Next \/ TickLate

\* the steps of goroutine t that take r.lock
Acquire(t) ==
    \/ t \in Producers /\ RecordSpanLock(t)
    \/ t \in FlushThreads /\ (FlushLock(t) \/ FlushRelock(t))
    \/ t \in DisableThreads /\ DisableLock(t)
    \/ t = Loop /\ (LoopLock \/ ShouldFlushLock)

\* the steps of goroutine t that end a critical section
Release(t) ==
    \/ t \in Producers /\ RecordSpanBody(t)
    \/ t \in FlushThreads /\ (FlushReturnEarly(t) \/ FlushDrain(t)
                                  \/ FlushFailure(t) \/ FlushSuccess(t))
    \/ t \in DisableThreads /\ DisableBody(t)
    \/ t = Loop /\ (LoopCheckDisabled \/ ShouldFlushBody)

\* the steps of the reportLoop goroutine that wait for no lock
LoopRuns == LoopWake \/ Report(Loop) \/ FlushCommands(Loop)

\* a recorder with the largest capacity tried
LiveInit ==
    /\ NewRecorder([MaxBufferedSpans |-> MaxCap, ReportingPeriod |-> 0])
    /\ ledger = NoLedger
    /\ WireIdle

\* the ticker keeps firing, the goroutine of reportLoop is scheduled and its
\* RPC returns, sync.Mutex hands the lock to a goroutine that keeps waiting
\* for it, and a critical section, which waits for nothing, ends (one
\* goroutine at a time is in a critical section)
LiveSpec ==
    /\ LiveInit
    /\ [][LiveNext]_vars
    /\ WF_vars(Tick \/ TickLate)
    /\ WF_vars(LoopRuns)
    /\ SF_vars(Acquire(Loop))
    /\ WF_vars(\E t \in Threads : Release(t))

\* ---------------------------------------------------------- properties
\* the Flush calls whose report RPC is outstanding
Reporting == {t \in FlushThreads : pc[t] = "Report"}

\* the places where a goroutine holds r.lock: each is left by one step that
\* waits for nothing and releases the lock
LockedPlaces == {"RecordSpanLocked", "FlushLocked", "Relocked", "DisableLocked",
                 "LoopLocked", "shouldFlushLocked"}

\* C1: in every reachable state at most one report RPC (backend.Report call)
\* is outstanding, whatever the interleaving of the reportLoop's Flush calls
\* and the Flush calls from outside.
C1_AtMostOneReport == Cardinality(Reporting) <= 1

\* C1 witness: a second Flush holds the lock and is about to test
\* reportInFlight while the report of another Flush is outstanding.
C1_Witness ==
    \E t, u \in FlushThreads : t # u /\ pc[t] = "Report" /\ pc[u] = "FlushLocked"

\* C2: a Flush whose report RPC is outstanding does not hold the recorder
\* lock, and whoever holds the lock is inside a critical section that ends
\* without waiting for the RPC; so a RecordSpan gets the lock and completes
\* while the RPC is still outstanding.
C2_LockFreeDuringReport ==
    /\ \A t \in Reporting : lock # t
    /\ \A t \in Threads : lock = t => pc[t] \in LockedPlaces

\* C2 witness: a RecordSpan has completed while a report RPC is outstanding
\* (the buffer, emptied before the RPC, holds a span again).
C2_Witness ==
    \E t \in Reporting : interfered[t] /\ ~disabled /\ buffer # << >>

\* C3: when RecordSpan was called on an enabled recorder with an empty buffer
\* no more often than the capacity allows, the next Flush (no report in
\* flight) sends a request with exactly the recorded spans, each once and in
\* order, and the buffer is empty when the lock is released before the RPC.
C3_FlushReportsRecorded ==
    \A t \in FlushThreads :
        ( /\ lastStep = [op |-> "FlushDrain", thread |-> t]
          /\ pre[t].run.ok
          /\ Len(pre[t].run.spans) <= bufferCap )
        => /\ pc[t] = "Report"
           /\ req[t].SpanRecords = pre[t].run.spans
           /\ \A i, j \in 1..Len(req[t].SpanRecords) :
                  i # j => req[t].SpanRecords[i] # req[t].SpanRecords[j]
           /\ buffer = << >>
           /\ lock # t

\* C3 witness: a Flush has just drained a full buffer of at least two
\* recorded spans.
C3_Witness ==
    \E t \in FlushThreads :
        /\ lastStep = [op |-> "FlushDrain", thread |-> t]
        /\ pre[t].run.ok
        /\ Len(pre[t].run.spans) = bufferCap
        /\ bufferCap >= 2

\* C4: the buffer never holds more spans than its capacity, and the capacity
\* never changes after construction, whatever RecordSpan, Flush (with the
\* reinsertion after a failed RPC) and Disable do.
C4_BufferWithinCapacity ==
    /\ [](Len(buffer) <= bufferCap)
    /\ [][bufferCap' = bufferCap]_vars

\* C4 witness: a failed Flush has just put back its spans into a buffer that
\* had no room for all of them, and the buffer is full.
C4_Witness ==
    /\ lastStep.op = "FlushFailure"
    /\ Len(lastStep.buffer) + Len(lastStep.pre.buffer) > bufferCap
    /\ Len(buffer) = bufferCap

\* C5: RecordSpan calls on an enabled recorder, from an empty buffer and with
\* no Flush in between, leave the buffer holding the first capacity spans
\* recorded, in order, and raise the dropped-span counter by the number of
\* the calls beyond the capacity.
C5_OverflowRejectsNew ==
    run.ok =>
        /\ buffer = SubSeq(run.spans, 1, Min(Len(run.spans), bufferCap))
        /\ droppedSpans = run.base + Max(0, Len(run.spans) - bufferCap)

\* C5 witness: every span was recorded with no Flush in between, more spans
\* than the capacity.
C5_Witness ==
    /\ run.ok
    /\ Len(run.spans) = MaxSpans
    /\ Len(run.spans) > bufferCap
    /\ pc[Producer] = "idle"

\* C6: when the backend call of a Flush has returned a transport error, the
\* buffer holds what it held at the return of the call followed by the
\* drained spans that fit, and the dropped-span counter has grown by the
\* number of drained spans that did not fit; if no RecordSpan and no Disable
\* ran during the call, the buffer and the counter are what they were before
\* the Flush.
C6_FailureRestores ==
    lastStep.op = "FlushFailure" =>
        LET batch == lastStep.pre.buffer
            fit == Max(0, Min(Len(batch), bufferCap - Len(lastStep.buffer)))
        IN  /\ buffer = lastStep.buffer \o SubSeq(batch, 1, fit)
            /\ droppedSpans = lastStep.dropped + (Len(batch) - fit)
            /\ ~lastStep.interfered =>
                   /\ buffer = lastStep.pre.buffer
                   /\ droppedSpans = lastStep.pre.dropped

\* C6 witness: a Flush of at least two spans has just failed, with no
\* RecordSpan or Disable during its call.
C6_Witness ==
    /\ lastStep.op = "FlushFailure"
    /\ ~lastStep.interfered
    /\ Len(lastStep.pre.buffer) >= 2
    /\ buffer = lastStep.pre.buffer

\* C7 as stated: after a Flush whose backend call returned a transport error,
\* reportOldest and reportYoungest both have the values they had before the
\* Flush.
C7_WindowUnchangedOnFailure ==
    lastStep.op = "FlushFailure" =>
        /\ reportOldest = lastStep.pre.oldest
        /\ reportYoungest = lastStep.pre.youngest

\* C7 amended: after a Flush whose backend call returned a transport error,
\* reportOldest has the value it had before the Flush, and reportYoungest is
\* the time at which that Flush began (its local now, which is also
\* lastReportAttempt), no earlier than its value before the Flush.
C7_OldestUnchangedOnFailure ==
    lastStep.op = "FlushFailure" =>
        /\ reportOldest = lastStep.pre.oldest
        /\ reportYoungest = lastStep.flushNow
        /\ reportYoungest = lastReportAttempt
        /\ reportYoungest >= lastStep.pre.youngest

\* C7 witness: a Flush has just failed and reportYoungest is later than it
\* was before the Flush.
C7_Witness ==
    /\ lastStep.op = "FlushFailure"
    /\ reportYoungest > lastStep.pre.youngest
    /\ reportOldest = lastStep.pre.oldest

\* C8 as stated: after a Flush whose backend call succeeded, the counters are
\* zero and reportOldest = reportYoungest = the time at which the RPC has
\* returned and the state is reset.
C8_WindowAtCompletionTime ==
    lastStep.op = "FlushSuccess" =>
        /\ droppedSpans = 0
        /\ reportOldest = clock
        /\ reportYoungest = clock

\* C8 amended: after a Flush whose backend call succeeded, the counters are
\* zero and reportOldest = reportYoungest = the time at which that Flush
\* began (its local now, which is also lastReportAttempt); that time is not
\* later than the time at which the RPC has returned.
C8_WindowAtFlushStart ==
    lastStep.op = "FlushSuccess" =>
        /\ droppedSpans = 0
        /\ reportOldest = lastStep.flushNow
        /\ reportYoungest = lastStep.flushNow
        /\ lastReportAttempt = lastStep.flushNow
        /\ lastStep.flushNow <= clock

\* C8 witness: a Flush has just succeeded, and time has passed since it began.
C8_Witness ==
    /\ lastStep.op = "FlushSuccess"
    /\ lastStep.flushNow < clock
    /\ reportOldest = lastStep.flushNow

\* C9: as long as the recorder has not been disabled, the spans rejected by
\* overflow so far are the dropped counts carried by the successful reports
\* plus the current value of the counter: no drop count is lost.
C9_NoDropCountLost == ~disabled => unreportedDrops = droppedSpans

\* the recorder state that a call on a disabled recorder must leave alone
disabledFrame == <<buffer, bufferCap, droppedSpans, reportOldest, reportYoungest,
                   lastReportAttempt, reportInFlight, disabled>>

\* C10: disabled never goes back to false, and on a disabled recorder the body
\* of Disable, of RecordSpan and of Flush leaves the buffer, the counters, the
\* window, lastReportAttempt and the in-flight flag unchanged and starts no
\* report RPC.
C10_DisableOneWay ==
    [][ /\ disabled => disabled'
        /\ \A t \in Threads :
               ( /\ disabled
                 /\ pc[t] \in {"DisableLocked", "RecordSpanLocked", "FlushLocked"}
                 /\ pc'[t] # pc[t] )
               => /\ UNCHANGED disabledFrame
                  /\ pc'[t] = IF t \in FlushThreads /\ pc[t] = "DisableLocked"
                              THEN "Commands" ELSE Return(t) ]_vars

\* C10 witness: a recorder of capacity 1 that never flushed is disabled, all
\* spans have been handed to RecordSpan and none was counted as dropped (so
\* RecordSpan ran after Disable), and a further Disable and a further Flush
\* are under way.
C10_Witness ==
    /\ disabled
    /\ bufferCap = 1
    /\ nextSpan = MaxSpans + 1
    /\ pc[Producer] = "idle"
    /\ lastReportAttempt = ZeroTime
    /\ droppedSpans = 0
    /\ pc[Disabler] = "idle"
    /\ pc[Flusher] = "FlushLocked"

\* C11 as stated: when a Flush returns whose successful response held a
\* command with the disable flag set, the recorder is disabled and the buffer
\* is empty.
C11_DisabledAndEmptyAtReturn ==
    (lastStep.op = "FlushReturn" /\ lastStep.commanded) =>
        /\ disabled
        /\ buffer = << >>

\* C12: once the recorder is disabled the reportLoop eventually exits (the
\* ticker keeps firing and the RPC it waits on returns), and once it has seen
\* disabled and left the loop it takes no further step, so starts no Flush.
C12_LoopExits ==
    /\ disabled ~> pc[Loop] = "exited"
    /\ [][pc[Loop] = "exited" => pc'[Loop] = "exited"]_vars

\* C12 witness: the recorder was disabled while the reportLoop was inside a
\* Flush of its own, and the loop has exited.
C12_Witness ==
    /\ pc[Loop] = "exited"
    /\ disabled
    /\ lastReportAttempt # ZeroTime
    /\ pc[Flusher] = "idle"
    /\ clock = MaxTime

\* C13: a Flush that finds another report in flight returns without changing
\* the buffer, the counters, the window, lastReportAttempt or the in-flight
\* flag, builds no request, and leaves its caller where a returned Flush
\* leaves it: no later flush is queued.
C13_FlushInFlightIsNoOp ==
    [][ \A t \in FlushThreads :
            (pc[t] = "FlushLocked" /\ reportInFlight /\ pc'[t] # pc[t])
            => /\ UNCHANGED disabledFrame
               /\ UNCHANGED <<flushNow, rawSpans, req, resp>>
               /\ pc'[t] = Return(t)
               /\ lock' = NoThread ]_vars

\* C13 witness: a Flush has just returned early from an enabled recorder
\* whose buffer holds spans, while the report of another Flush is outstanding.
C13_Witness ==
    /\ lastStep = [op |-> "FlushReturnEarly", inFlight |-> TRUE]
    /\ ~disabled
    /\ reportInFlight
    /\ buffer # << >>
    /\ Reporting # {}

\* the response holds a command with the disable flag set
HasDisable(commands) == \E i \in DOMAIN commands : CommandDisables(commands[i])

\* the spans of the sequence q
Range(q) == {q[i] : i \in DOMAIN q}

\* the Flush calls that hold a batch: drained, and not yet accounted for
Outstanding == {t \in FlushThreads : pc[t] \in {"Report", "Relock", "Relocked"}}

\* C14 as stated: a span buffered while a report RPC is outstanding is still
\* in the buffer when that RPC has succeeded with no disable command in its
\* response (it already fails to be when the Flush releases the lock after
\* the RPC, before it returns).
C14_RecordedDuringReportKept ==
    ( /\ lastStep.op = "FlushSuccess"
      /\ ~HasDisable(resp[lastStep.thread].Commands) )
    => Range(lastStep.during) \subseteq Range(buffer)

\* C14 amended: a span buffered while a report RPC is outstanding is not in
\* that report's request; when the RPC has succeeded and no Disable ran
\* during it, the buffer holds exactly the spans buffered during the RPC, in
\* order, as the Flush releases the lock; and no span is ever in more than
\* one successful report.
C14_RecordedDuringReportStays ==
    /\ \A t \in Outstanding :
           /\ Range(buffer) \cap Range(req[t].SpanRecords) = {}
           /\ Range(during[t]) \cap Range(req[t].SpanRecords) = {}
    /\ (lastStep.op = "FlushSuccess" /\ ~disabled) =>
           /\ buffer = lastStep.during
           /\ Range(lastStep.during) \cap Range(lastStep.sent) = {}
    /\ \A s \in SpanIds : ledger.reported[s] <= 1

\* C14 witness: a Flush that sent a span has just succeeded, and a span
\* buffered during its RPC is in the buffer.
C14_Witness ==
    /\ lastStep.op = "FlushSuccess"
    /\ ~disabled
    /\ lastStep.sent # << >>
    /\ lastStep.during # << >>
    /\ buffer = lastStep.during

\* how often span s is in the batch of an outstanding Flush
InBatches(s) == Count(rawSpans[Loop], s) + Count(rawSpans[Flusher], s)

\* the places where span s is: the buffer, the batch of an outstanding Flush,
\* a successful report, the spans dropped when a failed Flush put its batch
\* back, the spans cleared by Disable
Places(s) ==
    Count(buffer, s) + InBatches(s) + ledger.reported[s] + ledger.dropped[s]
        + ledger.cleared[s]

\* C20: every span that RecordSpan buffered is in exactly one of: the buffer,
\* the batch of an outstanding report, one successful report, the spans
\* counted as dropped when a failed batch was put back, the spans cleared by
\* Disable; so no span is in two successful reports, and none is both in the
\* buffer and in an outstanding batch. A span that was not buffered is in none.
C20_SpanConservation ==
    /\ \A s \in SpanIds : Places(s) = IF s \in ledger.accepted THEN 1 ELSE 0
    /\ \A t \in FlushThreads : t \notin Outstanding => rawSpans[t] = << >>

\* C20 witness: one span is in a successful report and another was dropped
\* when a failed Flush put its batch back into a full buffer.
C20_Witness ==
    \E s, u \in ledger.accepted :
        /\ ledger.reported[s] = 1
        /\ ledger.dropped[u] = 1
        /\ ~disabled

C19_CloseWhenNoReport ==
    [][ /\ (~transportClosed /\ transportClosed') => Reporting = {}
        /\ transportClosed =>
               \A t \in FlushThreads : pc'[t] = "Report" => pc[t] = "Report" ]_vars

\* C16: in the wire record of a span every tag whose key starts with "join:"
\* is a join id and not an attribute, every other tag is an attribute and not
\* a join id, and the join id derived from the trace id is always there;
\* for every tag key, the prefixes of "join:" among them.
C16_JoinPrefixRoutesTags ==
    record.built =>
        /\ \A k \in rawTags :
               IF HasPrefix(k, JoinPrefix)
               THEN k \in record.JoinIds /\ k \notin record.Attributes
               ELSE k \in record.Attributes /\ k \notin record.JoinIds
        /\ TraceGUIDKey \in record.JoinIds

\* C15: a non-zero Options.ReportingPeriod is the maximum reporting period
\* that the recorder uses, the one shouldFlush compares with; the default is
\* used only when the option is zero.
C15_ConfiguredPeriodUsed ==
    maxReportingPeriod = IF options.ReportingPeriod # 0
                         THEN options.ReportingPeriod
                         ELSE defaultMaxReportingPeriod

\* shouldFlush's two conditions, as the recorder's state has them
FlushDue == (clock + minReportingPeriod) - lastReportAttempt > maxReportingPeriod
FlushFull == 2 * Len(buffer) > bufferCap

\* C17 as stated: when shouldFlush has just returned on a wake of the
\* reportLoop, the loop goes on to call Flush if and only if the attempt is
\* due or the buffer is more than half full, and else goes back to waiting;
\* and on its first wake it always goes on to call Flush (a wake at the time
\* of the first tick, before a second tick is due, is the first wake).
C17_FlushIffDueOrFull ==
    lastStep.op = "shouldFlush" =>
        /\ pc[Loop] = "Flush" <=> (FlushDue \/ FlushFull)
        /\ ~(FlushDue \/ FlushFull) => pc[Loop] = "wait"
        /\ clock = minReportingPeriod => pc[Loop] = "Flush"

\* C17 amended: as above, but a wake goes on to call Flush for sure when
\* lastReportAttempt is still unset, which the first wake finds unless a
\* Flush from outside came before it.
C17_FlushIffDueOrFullOrUnset ==
    lastStep.op = "shouldFlush" =>
        /\ pc[Loop] = "Flush" <=> (FlushDue \/ FlushFull)
        /\ ~(FlushDue \/ FlushFull) => pc[Loop] = "wait"
        /\ lastReportAttempt = ZeroTime => pc[Loop] = "Flush"

\* C17 witness: on a wake after the first tick's time, more than a maximum
\* reporting period less one tick after the last attempt, the loop goes on to
\* call Flush with an empty buffer.
C17_Witness ==
    /\ lastStep.op = "shouldFlush"
    /\ clock > minReportingPeriod
    /\ lastReportAttempt # ZeroTime
    /\ (clock + minReportingPeriod) - lastReportAttempt = maxReportingPeriod + 1
    /\ buffer = << >>
    /\ pc[Loop] = "Flush"
    /\ ~disabled

====
